---- MODULE Spec2Model ----
(***************************************************************************)
(* Model of the knowledge-base retrieval orchestration layer of genassist: *)
(* AgentRAGServiceManager (backend/app/modules/data/manager.py).           *)
(*                                                                         *)
(* Part 1: the service registry (get_service, cleanup_service,             *)
(*         cleanup_all) run by asyncio tasks on one event loop.  A step of *)
(*         the model is the code a task runs between two suspension        *)
(*         points; the suspension points of get_service are the wait for   *)
(*         a contended per-kb asyncio.Lock and `await service.initialize()`*)
(* Part 2: load_knowledge_items, the bulk ingestion loop.                  *)
(***************************************************************************)
EXTENDS Integers, Sequences, FiniteSets, TLC

\* ------------------------------------------------------------------ bounds
\* Number of get_service calls (asyncio tasks) of a run.
NumTasks == 2

Tasks == 1..NumTasks

\* Knowledge-base ids (kb_obj.id).
KBs == {"k1", "k2"}

\* None of Python: no instance, no lock object, no task.
None == 0

\* Outcomes of AgentRAGService.from_kb_config and of service.initialize().
CfgOutcomes == {"ok", "null", "raise"}
InitOutcomes == {"true", "false", "raise"}

\* ------------------------------------------------------------------ state
VARIABLES
    services,      \* self._services: kb_id -> service instance (None: no key)
    initLocks,     \* self._initialization_locks: kb_id -> lock object (None: no key)
    lockHolder,    \* asyncio.Lock object -> the task holding it, or None
    lockWaiters,   \* asyncio.Lock object -> FIFO of the tasks waiting for it
    inst,          \* service instance -> [kb, initialized, initRet]
    task,          \* get_service call -> its locals and position
    mutations      \* structural mutations of the two maps done so far

regVars == <<services, initLocks, lockHolder, lockWaiters, inst, task, mutations>>

VARIABLES
    ld,            \* load_knowledge_items call -> its arguments, locals and position
    store          \* the documents held by the retrieval backend: {[id, content]}

loadVars == <<ld, store>>

VARIABLES
    sr             \* the manager.search call: its arguments, locals and position

searchVars == <<sr>>

VARIABLES
    mop,           \* the last manager operation, and the get_service calls already used
    route          \* the delete_knowledge route: its position and locals

opVars == <<mop, route>>

VARIABLES
    graph,         \* GraphDBProvider.graph: "none", or connected with/without constraints
    gdocs,         \* the Document nodes of the Neo4j database
    gchunks,       \* the Chunk nodes of the Neo4j database
    gret           \* the last GraphDBProvider operation and what it returned

graphVars == <<graph, gdocs, gchunks, gret>>

VARIABLES
    rag,           \* LightRAGProvider.rag is set
    ragDocs,       \* the texts inserted into the LightRAG storage
    documentMap,   \* LightRAGProvider._document_map (its keys)
    lret           \* the last LightRAGProvider operation and what it returned

lightVars == <<rag, ragDocs, documentMap, lret>>

VARIABLES
    agg,           \* the LogAggregator: its metrics, its lock and the calling threads
    sock,          \* the SocketConnectionManager and the broadcast in progress
    wiz            \* the wizard state of the WorkflowManager class and the last call

aggVars == <<agg>>

sockVars == <<sock>>

wizVars == <<wiz>>

\* The retrieval layer, and the components around it.
coreVars == <<regVars, loadVars, searchVars, opVars, graphVars, lightVars>>

vars == <<coreVars, aggVars, sockVars, wizVars>>

\* What the operations of each part leave alone.
nonRegVars == <<loadVars, searchVars, opVars, graphVars, lightVars, aggVars, sockVars, wizVars>>

nonLoadVars == <<regVars, searchVars, opVars, graphVars, lightVars, aggVars, sockVars, wizVars>>

nonSearchVars == <<regVars, loadVars, opVars, graphVars, lightVars, aggVars, sockVars, wizVars>>

nonOpVars == <<regVars, loadVars, searchVars, graphVars, lightVars, aggVars, sockVars, wizVars>>

nonGraphVars == <<regVars, loadVars, searchVars, opVars, lightVars, aggVars, sockVars, wizVars>>

nonLightVars == <<regVars, loadVars, searchVars, opVars, graphVars, aggVars, sockVars, wizVars>>

nonAggVars == <<coreVars, sockVars, wizVars>>

nonSockVars == <<coreVars, aggVars, wizVars>>

nonWizVars == <<coreVars, aggVars, sockVars>>

\* A service instance is named by the task whose get_service call constructed it
\* (a call constructs at most one), a lock object by the task that created it.
NoInst ==
    [kb |-> "k1", initialized |-> FALSE, initRet |-> "none", made |-> FALSE,
     inits |-> 0, cached |-> FALSE]

IdleTask ==
    [pc |-> "idle", kb |-> "k1", lock |-> None, svc |-> None, ret |-> None,
     retInit |-> FALSE, evicted |-> None, cfg |-> "none", initRes |-> "none",
     raised |-> FALSE, inserted |-> FALSE, cleaned |-> FALSE]

InitRegistry ==
    /\ services = [k \in KBs |-> None]
    /\ initLocks = [k \in KBs |-> None]
    /\ lockHolder = [l \in Tasks |-> None]
    /\ lockWaiters = [l \in Tasks |-> <<>>]
    /\ inst = [i \in Tasks |-> NoInst]
    /\ task = [t \in Tasks |-> IdleTask]
    /\ mutations = {}

\* ------------------------------------------------------------------ helpers
\* service.is_initialized()
IsInitialized(i) == inst[i].initialized

\* Lines 382 and 388: the operations whose body runs inside `async with self._lock`.
HoldsRegistryLock(op) == op \in {"cleanup_service", "cleanup_all"}

Mutation(map, kind, op) ==
    [map |-> map, kind |-> kind, by |-> op, locked |-> HoldsRegistryLock(op)]

\* Lines 68-70: the cached entry is returned only if it reports itself initialized.
CacheHitAnyEntry(sv, kb) == sv[kb] # None

CacheHit(sv, kb) == sv[kb] # None /\ IsInitialized(sv[kb])

\* Line 85: the re-check made under the per-kb lock.
DoubleCheckNever(sv, kb) == FALSE

DoubleCheckHit(sv, kb) == sv[kb] # None /\ IsInitialized(sv[kb])

\* Line 99: `if not success: return None`, else the service is cached (line 105).
CacheAlways(res) == TRUE

InitSucceeded(res) == res = "true"

\* is_initialized() of an instance after its initialize() returned res.
FlagAfterInitialize(res) == res = "true"

\* Lines 110-113: `except Exception` catches whatever from_kb_config or
\* initialize() raise; the handler logs and returns None.
Escapes(outcome) == outcome = "raise" /\ FALSE

\* Lines 89-93: AgentRAGService.from_kb_config builds a new instance for the call;
\* the evicted one is dropped.
ReuseEvicted(t, evicted) == IF evicted # None THEN evicted ELSE t

FreshInstance(t, evicted) == t

\* asyncio.Lock.acquire returns at once only if the lock is unlocked and nobody waits.
LockFreeShared(l) == \A m \in Tasks : lockHolder[m] = None /\ lockWaiters[m] = <<>>

LockFree(l) == lockHolder[l] = None /\ lockWaiters[l] = <<>>

\* _remove_service (lines 368-373) applied to the two maps.
RemoveMutations(sv, lk, kb, op) ==
    (IF sv[kb] # None THEN {Mutation("services", "remove", op)} ELSE {})
    \cup (IF lk[kb] # None THEN {Mutation("locks", "remove", op)} ELSE {})

\* ------------------------------------------------------------------ get_service
\* Lines 84-113, entered by task t holding lock object l: the double check, then
\* from_kb_config and the call of initialize(), at which the task suspends.
\* sv, lk, hold, wait, muts are the maps as the caller's step has left them.
CriticalSection(t, kb, l, sv, lk, hold, wait, muts, evicted, cfg) ==
    /\ initLocks' = lk
    /\ lockWaiters' = wait
    /\ mutations' = muts
    /\ services' = sv
    /\ IF DoubleCheckHit(sv, kb)
       THEN /\ task' = [task EXCEPT ![t] = [@ EXCEPT !.pc = "done", !.kb = kb,
                            !.lock = l, !.ret = sv[kb], !.retInit = IsInitialized(sv[kb]),
                            !.evicted = evicted]]
            /\ lockHolder' = [hold EXCEPT ![l] = None]
            /\ inst' = inst
       ELSE IF cfg = "ok"
       THEN \* line 98: initialize() is called on the fresh instance
            /\ task' = [task EXCEPT ![t] = [@ EXCEPT !.pc = "init", !.kb = kb,
                            !.lock = l, !.svc = FreshInstance(t, evicted),
                            !.evicted = evicted, !.cfg = cfg]]
            /\ lockHolder' = [hold EXCEPT ![l] = t]
            /\ inst' = [inst EXCEPT ![FreshInstance(t, evicted)] =
                            [@ EXCEPT !.kb = kb, !.initialized = FALSE,
                                      !.initRet = "none", !.made = TRUE,
                                      !.inits = @ + 1]]
       ELSE \* from_kb_config returned None (line 95) or raised (line 113)
            /\ task' = [task EXCEPT ![t] = [@ EXCEPT !.pc = "done", !.kb = kb,
                            !.lock = l, !.ret = None, !.evicted = evicted, !.cfg = cfg,
                            !.raised = Escapes(cfg)]]
            /\ lockHolder' = [hold EXCEPT ![l] = None]
            /\ inst' = inst

\* Lines 65-83: a call of get_service(kb) up to its first suspension point.
GetServiceStart(t, kb, cfg) ==
    /\ UNCHANGED nonRegVars
    /\ task[t].pc = "idle"
    /\ IF CacheHit(services, kb)
       THEN /\ task' = [task EXCEPT ![t] = [@ EXCEPT !.pc = "done", !.kb = kb,
                            !.ret = services[kb],
                            !.retInit = IsInitialized(services[kb])]]
            /\ UNCHANGED <<services, initLocks, lockHolder, lockWaiters, inst, mutations>>
       ELSE LET stale == services[kb] # None
                \* line 76: _remove_service drops the entry and the lock of the key
                sv == IF stale THEN [services EXCEPT ![kb] = None] ELSE services
                lk1 == IF stale THEN [initLocks EXCEPT ![kb] = None] ELSE initLocks
                m1 == IF stale
                      THEN RemoveMutations(services, initLocks, kb, "get_service")
                      ELSE {}
                \* lines 79-80: a new lock object when the key has none
                lk == IF lk1[kb] = None THEN [lk1 EXCEPT ![kb] = t] ELSE lk1
                m2 == IF lk1[kb] = None
                      THEN {Mutation("locks", "insert", "get_service")}
                      ELSE {}
                l == lk[kb]
                ev == IF stale THEN services[kb] ELSE None
            IN  IF LockFree(l)
                THEN CriticalSection(t, kb, l, sv, lk, lockHolder, lockWaiters,
                                     mutations \cup m1 \cup m2, ev, cfg)
                ELSE /\ task' = [task EXCEPT ![t] = [@ EXCEPT !.pc = "waitLock",
                                     !.kb = kb, !.lock = l, !.evicted = ev]]
                     /\ lockWaiters' = [lockWaiters EXCEPT ![l] = Append(@, t)]
                     /\ services' = sv
                     /\ initLocks' = lk
                     /\ mutations' = mutations \cup m1 \cup m2
                     /\ UNCHANGED <<lockHolder, inst>>

\* The lock a suspended `async with` waits for: the object it called acquire()
\* on, whatever self._initialization_locks holds for the key by now.
LockOfKey(t) == initLocks[task[t].kb]

AwaitedLock(t) == task[t].lock

\* Line 83, contended: the lock was released and t is its first waiter; t takes the
\* lock object it has been waiting for and runs lines 84-98.
GetServiceResume(t, cfg) ==
    /\ UNCHANGED nonRegVars
    /\ task[t].pc = "waitLock"
    /\ LET l == AwaitedLock(t)
       IN  /\ l # None
           /\ lockHolder[l] = None
           /\ lockWaiters[l] # <<>>
           /\ Head(lockWaiters[l]) = t
           /\ CriticalSection(t, task[t].kb, l, services, initLocks, lockHolder,
                              [lockWaiters EXCEPT ![l] = Tail(@)], mutations,
                              task[t].evicted, cfg)

\* Lines 98-113: initialize() of the instance of task t returns res.
InitializeReturns(t, res) ==
    /\ UNCHANGED nonRegVars
    /\ task[t].pc = "init"
    /\ LET kb == task[t].kb
           s == task[t].svc
           ok == FlagAfterInitialize(res)
       IN  /\ inst' = [inst EXCEPT ![s] = [@ EXCEPT !.initialized = ok, !.initRet = res,
                                 !.cached = @ \/ InitSucceeded(res)]]
           /\ IF InitSucceeded(res)
              THEN /\ services' = [services EXCEPT ![kb] = s]
                   /\ mutations' = mutations \cup {Mutation("services", "insert", "get_service")}
                   /\ task' = [task EXCEPT ![t] = [@ EXCEPT !.pc = "done", !.ret = s,
                                   !.retInit = ok, !.initRes = res, !.inserted = TRUE]]
              ELSE /\ task' = [task EXCEPT ![t] = [@ EXCEPT !.pc = "done", !.ret = None,
                                   !.initRes = res, !.raised = Escapes(res)]]
                   /\ UNCHANGED <<services, mutations>>
           /\ lockHolder' = [lockHolder EXCEPT ![task[t].lock] = None]
           /\ UNCHANGED <<initLocks, lockWaiters>>

\* ------------------------------------------------------------------ cleanup
\* The get_service calls for kb that are in flight (suspended) now.
InFlight(kb) == {t \in Tasks : task[t].pc \in {"waitLock", "init"} /\ task[t].kb = kb}

MarkCleaned(ks) ==
    [t \in Tasks |-> IF \E k \in ks : t \in InFlight(k)
                     THEN [task[t] EXCEPT !.cleaned = TRUE] ELSE task[t]]

\* Lines 375-384.  The body has no suspension point and nobody else takes
\* self._lock, so the call is one step.
CleanupService(kb) ==
    /\ UNCHANGED nonRegVars
    /\ services' = [services EXCEPT ![kb] = None]
    /\ initLocks' = [initLocks EXCEPT ![kb] = None]
    /\ mutations' = mutations \cup RemoveMutations(services, initLocks, kb, "cleanup_service")
    /\ task' = MarkCleaned({kb})
    /\ UNCHANGED <<lockHolder, lockWaiters, inst>>

\* Lines 386-391.
CleanupAll ==
    /\ UNCHANGED nonRegVars
    /\ services' = [k \in KBs |-> None]
    /\ initLocks' = [k \in KBs |-> None]
    /\ mutations' = mutations \cup
           UNION {RemoveMutations(services, initLocks, k, "cleanup_all") : k \in KBs}
    /\ task' = MarkCleaned(KBs)
    /\ UNCHANGED <<lockHolder, lockWaiters, inst>>

\* A cached service loses its providers: is_initialized() flips to false.
Disconnect(i) ==
    /\ UNCHANGED nonRegVars
    /\ inst[i].initialized
    /\ inst' = [inst EXCEPT ![i] = [@ EXCEPT !.initialized = FALSE]]
    /\ UNCHANGED <<services, initLocks, lockHolder, lockWaiters, task, mutations>>

\* ================================================================== Part 2
\* load_knowledge_items (manager.py lines 237-366).

\* Longest batch (knowledge_items) of a call.
MaxItems == 2

\* The load_knowledge_items calls of a run.
Loaders == {"L1", "L2"}

\* File locators: local paths and http(s) URLs.
Locators == {"/a", "/b", "http://u"}

\* Line 303: file_item.startswith("http://") or file_item.startswith("https://")
IsUrl(loc) == loc \in {"http://u"}

\* item.files of the items of type "file" (string locators).
FileLists ==
    {<<"/a">>, <<"/a", "/b">>, <<"/a", "http://u">>, <<"http://u", "/a">>}

\* The knowledge items (KBRead): id, type, files.
Items ==
    [id : KBs, type : {"text", "url"}, files : {<<>>}]
    \cup [id : KBs, type : {"file"}, files : FileLists]

Batches == UNION {[1..n -> Items] : n \in 0..MaxItems}

Actions == {"create", "update"}

\* A local variable of the call that no statement has assigned yet.
Unbound == <<"unbound">>

\* Line 285: f"KB:{kb_id}#content"
DocIdContent(kb) == <<"KB:", kb, "#content">>

\* Line 302: f"KB:{kb_id}#file_{idx}:{file_item}"
DocIdFile(kb, idx, loc) == <<"KB:", kb, "#file_", idx, ":", loc>>

\* The knowledge base a doc id is scoped to (the KB:{kb_id}# prefix).
KbOf(id) == id[2]

\* extractor.extract(path=...) of a readable file.
ExtractedText(loc) == <<"text", loc>>

\* getattr(item, "content", ""): the inline text, or the text fetched for a URL item.
InlineContent(item) == <<"content", item.type>>

\* Documents in the backend before a call: k1 holds three, k2 none.
OldDocs ==
    {[id |-> DocIdContent("k1"), content |-> <<"old", "">>],
     [id |-> DocIdFile("k1", 0, "/a"), content |-> <<"old", "">>],
     [id |-> DocIdFile("k1", 1, "/old"), content |-> <<"old", "">>]}

IdleLoader ==
    [pc |-> "idle", items |-> <<>>, action |-> "create", groups |-> <<>>,
     gi |-> 1, ii |-> 1, k |-> 1, doc_ids |-> <<>>, contents |-> <<>>,
     content |-> Unbound, doc_id |-> Unbound, todel |-> <<>>,
     results |-> <<>>, log |-> <<>>,
     listed |-> [kb \in KBs |-> <<>>], asked |-> {}, resolved |-> {},
     env |-> {}]

\* Lines 255-260: the keys of kb_groups in insertion order.
RECURSIVE GroupKeysFrom(_, _)
GroupKeysFrom(items, seen) ==
    IF items = <<>> THEN <<>>
    ELSE LET kb == Head(items).id
         IN  IF kb \in seen
             THEN GroupKeysFrom(Tail(items), seen)
             ELSE <<kb>> \o GroupKeysFrom(Tail(items), seen \cup {kb})

GroupKeys(items) == GroupKeysFrom(items, {})

\* kb_groups[kb_id]
ItemsOf(items, kb) == SelectSeq(items, LAMBDA it : it.id = kb)

\* service.get_document_ids(): the ids scoped to the knowledge base, as a list.
RECURSIVE SetToSeq(_)
SetToSeq(S) ==
    IF S = {} THEN <<>>
    ELSE LET x == CHOOSE y \in S : TRUE IN <<x>> \o SetToSeq(S \ {x})

StoredIds(kb) == {d.id : d \in {e \in store : KbOf(e.id) = kb}}

\* Upsert and removal in the backend.
Upsert(st, id, content) ==
    {d \in st : d.id # id} \cup {[id |-> id, content |-> content]}

Remove(st, id) == {d \in st : d.id # id}

\* Lines 298-334: the loop over item.files.  okf[i] tells whether the extraction
\* (or, for a URL, the download and extraction) of the i-th file succeeds; cur is
\* the value of the local `content` when the loop runs.  The doc id is appended
\* before the content is produced (line 302), the content only if nothing raised
\* (acc.env: the files whose extraction or download failed);
\* for a URL the text goes to temp_content and `content` is appended (line 306),
\* which raises UnboundLocalError, caught at line 327, when `content` is unbound.
RECURSIVE ResolveFiles(_, _, _, _, _, _)
ResolveFiles(kb, files, okf, cur, i, acc) ==
    IF i > Len(files) THEN acc
    ELSE LET loc == files[i]
             id == DocIdFile(kb, i - 1, loc)
             ids == Append(acc.doc_ids, id)
             next ==
                 IF IsUrl(loc)
                 THEN IF okf[i] /\ cur # Unbound
                      THEN [acc EXCEPT !.doc_ids = ids, !.contents = Append(@, cur)]
                      ELSE [acc EXCEPT !.doc_ids = ids,
                                       !.env = IF okf[i] THEN @ ELSE @ \cup {id}]
                 ELSE IF okf[i]
                      THEN [acc EXCEPT !.doc_ids = ids,
                                       !.contents = Append(@, ExtractedText(loc))]
                      ELSE [acc EXCEPT !.doc_ids = ids, !.env = @ \cup {id}]
         IN  ResolveFiles(kb, files, okf, cur, i + 1, next)

\* Line 343: zip(doc_ids, contents) stops at the shorter list.
Min(a, b) == IF a <= b THEN a ELSE b

ZipLen(l) == Min(Len(l.doc_ids), Len(l.contents))

CurrentKb(l) == l.groups[l.gi]

\* Line 274: the existing documents are deleted first when action is "update".
DeletesNothingFirst(action) == FALSE

DeletesFirst(action) == action = "update"

\* Lines 249-260: the call starts; the items are grouped by knowledge-base id.
LoadStart(p, items, action) ==
    /\ UNCHANGED nonLoadVars
    /\ ld[p].pc = "idle"
    /\ ld' = [ld EXCEPT ![p] = [IdleLoader EXCEPT !.pc = "group", !.items = items,
                  !.action = action, !.groups = GroupKeys(items)]]
    /\ UNCHANGED store

\* Lines 262-272 and 366: the next group.  got tells whether get_service returned
\* a service for the group's first item.
LoadGroup(p, got) ==
    /\ UNCHANGED nonLoadVars
    /\ ld[p].pc = "group"
    /\ LET l == ld[p]
       IN  IF l.gi > Len(l.groups)
           THEN ld' = [ld EXCEPT ![p].pc = "done"]
           ELSE IF ~got
           THEN ld' = [ld EXCEPT ![p].gi = @ + 1]
           ELSE ld' = [ld EXCEPT ![p] = [@ EXCEPT
                           !.pc = IF DeletesFirst(l.action) THEN "ids" ELSE "item",
                           !.ii = 1,
                           !.resolved = @ \cup {CurrentKb(l)}]]
    /\ UNCHANGED store

\* Lines 276-277: existing_ids = await service.get_document_ids()
LoadGetDocumentIds(p) ==
    /\ UNCHANGED nonLoadVars
    /\ ld[p].pc = "ids"
    /\ LET l == ld[p]
           kb == CurrentKb(l)
           existing == SetToSeq(StoredIds(kb))
       IN  ld' = [ld EXCEPT ![p] = [@ EXCEPT
                      !.pc = IF existing # <<>> THEN "delete" ELSE "item",
                      !.todel = existing,
                      !.listed = [@ EXCEPT ![kb] = existing],
                      !.asked = @ \cup {kb}]]
    /\ UNCHANGED store

\* Line 278: bulk_delete_documents(service, existing_ids), one awaited
\* delete_document per id, which removes the document from the backend.
LoadBulkDelete(p) ==
    /\ UNCHANGED nonLoadVars
    /\ ld[p].pc = "delete"
    /\ LET l == ld[p]
           id == Head(l.todel)
       IN  /\ ld' = [ld EXCEPT ![p] = [@ EXCEPT
                         !.pc = IF Tail(l.todel) = <<>> THEN "item" ELSE "delete",
                         !.todel = Tail(l.todel),
                         !.log = Append(@, [op |-> "delete", kb |-> CurrentKb(l),
                                            id |-> id, content |-> Unbound])]]
           /\ store' = Remove(store, id)

\* The outcomes the step for the next item does not consult are held at "success",
\* so that each case of the step is one transition.
Consulted(l, okf, urlok) ==
    LET its == ItemsOf(l.items, CurrentKb(l))
        n == IF l.ii > Len(its) THEN 0 ELSE Len(its[l.ii].files)
        isUrl == l.ii <= Len(its) /\ its[Min(l.ii, Len(its))].type = "url"
    IN  /\ \A i \in DOMAIN okf : i > n => okf[i]
        /\ urlok \/ isUrl

\* Lines 283-343 and 361-364: the next item of the group; its content is resolved
\* without suspending.  okf: the outcome of each file's extraction; urlok: the
\* outcome of set_url_content_if_has_rag for an item of type "url".
LoadItem(p, okf, urlok) ==
    /\ UNCHANGED nonLoadVars
    /\ ld[p].pc = "item"
    /\ Consulted(ld[p], okf, urlok)
    /\ LET l == ld[p]
           kb == CurrentKb(l)
           its == ItemsOf(l.items, kb)
       IN  IF l.ii > Len(its)
           THEN ld' = [ld EXCEPT ![p] = [@ EXCEPT !.pc = "group", !.gi = @ + 1]]
           ELSE LET item == its[l.ii]
                    isFile == item.type = "file" /\ item.files # <<>>
                    r == IF isFile
                         THEN ResolveFiles(kb, item.files, okf, l.content, 1,
                                  [doc_ids |-> <<>>, contents |-> <<>>, env |-> {}])
                         ELSE [doc_ids |-> <<DocIdContent(kb)>>,
                               contents |-> <<InlineContent(item)>>, env |-> {}]
                    m == [l EXCEPT !.doc_ids = r.doc_ids, !.contents = r.contents,
                                   !.env = @ \cup r.env, !.k = 1]
                IN  IF item.type = "url" /\ ~isFile /\ ~urlok
                    THEN \* line 340 raises: the handler of line 361 reads doc_id
                         IF l.doc_id = Unbound
                         THEN ld' = [ld EXCEPT ![p] = [m EXCEPT !.pc = "raised"]]
                         ELSE ld' = [ld EXCEPT ![p] = [m EXCEPT !.ii = @ + 1,
                                        !.results = Append(@, [id |-> l.doc_id,
                                             stored |-> FALSE, error |-> TRUE])]]
                    ELSE IF ZipLen(m) = 0
                    THEN ld' = [ld EXCEPT ![p] = [m EXCEPT !.ii = @ + 1]]
                    ELSE ld' = [ld EXCEPT ![p] = [m EXCEPT !.pc = "add"]]
    /\ UNCHANGED store

\* Lines 343-359: one round of the zip loop; service.add_document upserts the
\* document in the backend and its result map is recorded.
LoadAddDocument(p) ==
    /\ UNCHANGED nonLoadVars
    /\ ld[p].pc = "add"
    /\ LET l == ld[p]
           id == l.doc_ids[l.k]
           c == l.contents[l.k]
           last == l.k = ZipLen(l)
       IN  /\ ld' = [ld EXCEPT ![p] = [@ EXCEPT
                         !.doc_id = id, !.content = c,
                         !.k = @ + 1,
                         !.pc = IF last THEN "item" ELSE "add",
                         !.ii = IF last THEN @ + 1 ELSE @,
                         !.results = Append(@, [id |-> id, stored |-> TRUE,
                                                error |-> FALSE]),
                         !.log = Append(@, [op |-> "add", kb |-> CurrentKb(l),
                                            id |-> id, content |-> c])]]
           /\ store' = Upsert(store, id, c)

InitLoad ==
    /\ ld = [p \in Loaders |-> IdleLoader]
    /\ store = OldDocs

\* The outcomes of the extractions of one item's files, by position.
OkFuns == [UNION {DOMAIN f : f \in FileLists} -> BOOLEAN]

\* One call of load_knowledge_items, by loader L1.
NextLoad1 ==
    \/ /\ ld["L1"].pc = "idle"
       /\ \E items \in Batches, a \in Actions : LoadStart("L1", items, a)
    \/ \E got \in BOOLEAN : LoadGroup("L1", got)
    \/ LoadGetDocumentIds("L1")
    \/ LoadBulkDelete("L1")
    \/ /\ ld["L1"].pc = "item"
       /\ \E okf \in OkFuns, urlok \in BOOLEAN : LoadItem("L1", okf, urlok)
    \/ LoadAddDocument("L1")

\* The update route (agent_knowledge.py lines 107-142) starts one
\* load_knowledge_items([item], "update") task per request; the tasks of two
\* requests for one knowledge base interleave at the awaits.  The items are
\* text and local files, and nothing fails.
Updates ==
    {<<it>> : it \in {[id |-> "k1", type |-> "text", files |-> <<>>],
                      [id |-> "k1", type |-> "file", files |-> <<"/a">>],
                      [id |-> "k1", type |-> "file", files |-> <<"/a", "/b">>]}}

AllExtracted == [i \in UNION {DOMAIN f : f \in FileLists} |-> TRUE]

NextLoad2 ==
    \/ \E p \in Loaders, items \in Updates : LoadStart(p, items, "update")
    \/ \E p \in Loaders : LoadGroup(p, TRUE)
    \/ \E p \in Loaders : LoadGetDocumentIds(p)
    \/ \E p \in Loaders : LoadBulkDelete(p)
    \/ \E p \in Loaders : LoadItem(p, AllExtracted, TRUE)
    \/ \E p \in Loaders : LoadAddDocument(p)

\* ================================================================== Part 3
\* manager.search (manager.py lines 161-199), format_results false.

\* Longest kb_objects list of a search call and longest result list of one
\* knowledge base.
MaxKbs == 3

MaxResults == 2

\* Scores of the search results and the values of the limit argument.
Scores == {1, 2}

Limits == {-1, 0, 2}

ScoreLists == UNION {[1..n -> Scores] : n \in 0..MaxResults}

\* What line 184-187 yield for one knowledge base: get_service returns None,
\* service.search raises, or service.search returns a list.
SearchOutcomes == {"null", "raise", "results"}

\* The SearchResult objects of the src-th knowledge base of the call.
Results(src, scores) ==
    [j \in 1..Len(scores) |-> [src |-> src, pos |-> j, score |-> scores[j]]]

IdleSearch ==
    [pc |-> "idle", n |-> 0, limit |-> 0, i |-> 1, all_results |-> <<>>,
     outcomes |-> <<>>, got |-> <<>>, ret |-> <<>>]

\* Line 193: sort(key=score, reverse=True) is stable: an element stays before
\* a later one unless its score is strictly smaller.
PlacedBeforeStrict(a, x) == a.score > x.score

PlacedBefore(a, x) == a.score >= x.score

InsertSorted(s, x) ==
    LET n == Cardinality({k \in 1..Len(s) : PlacedBefore(s[k], x)})
    IN  SubSeq(s, 1, n) \o <<x>> \o SubSeq(s, n + 1, Len(s))

RECURSIVE SortByScore(_)
SortByScore(s) ==
    IF s = <<>> THEN <<>>
    ELSE InsertSorted(SortByScore(SubSeq(s, 1, Len(s) - 1)), s[Len(s)])

\* Line 194: all_results[:limit], the slice of Python.
Max(a, b) == IF a >= b THEN a ELSE b

Slice(s, limit) ==
    IF limit >= 0
    THEN SubSeq(s, 1, Min(limit, Len(s)))
    ELSE SubSeq(s, 1, Max(Len(s) + limit, 0))

\* Lines 189-190: `except Exception` around service.search logs and goes on.
SearchEscapesAlways(outcome) == outcome = "raise"

SearchEscapes(outcome) == outcome = "raise" /\ FALSE

\* Line 181: the call starts with n knowledge bases in kb_objects.
SearchStart(n, limit) ==
    /\ UNCHANGED nonSearchVars
    /\ sr.pc = "idle"
    /\ sr' = [IdleSearch EXCEPT !.pc = "loop", !.n = n, !.limit = limit]

\* Lines 183-190: one round of the loop over kb_objects.
SearchKb(outcome, scores) ==
    /\ UNCHANGED nonSearchVars
    /\ sr.pc = "loop"
    /\ sr.i <= sr.n
    /\ outcome # "results" => scores = <<>>
    /\ LET results == Results(sr.i, scores)
       IN  sr' = [sr EXCEPT
                     !.pc = IF SearchEscapes(outcome) THEN "raised" ELSE "loop",
                     !.i = @ + 1,
                     !.all_results = IF outcome = "results" THEN @ \o results ELSE @,
                     !.outcomes = Append(@, outcome),
                     !.got = Append(@, results)]

\* Lines 192-199: sort, truncate, return.
SearchReturn ==
    /\ UNCHANGED nonSearchVars
    /\ sr.pc = "loop"
    /\ sr.i > sr.n
    /\ sr' = [sr EXCEPT !.pc = "done",
                        !.ret = Slice(SortByScore(sr.all_results), sr.limit)]

InitSearch == sr = IdleSearch

NextSearch ==
    \/ \E n \in 1..MaxKbs, limit \in Limits : SearchStart(n, limit)
    \/ \E outcome \in SearchOutcomes, scores \in ScoreLists : SearchKb(outcome, scores)
    \/ SearchReturn

\* ================================================================== Part 4
\* The operations of the manager that resolve a service and delegate to it
\* (manager.py lines 115-159 and 201-235), and the delete_knowledge route
\* (api/v1/routes/agent_knowledge.py lines 145-168).  Each of them begins with
\* `await self.get_service(kb_obj)`: that call is one of the get_service calls of
\* Part 1, and the action below is the rest of the operation once it returned.

ManagerOps == {"add_document", "delete_document", "get_document_ids", "finalize_legra"}

\* Most documents the route finds for the knowledge base it deletes.
MaxRouteDocs == 1

\* What each operation returns when no service could be resolved.
EmptyResult(op) ==
    CASE op \in {"add_document", "delete_document"} -> "{}"
      [] op = "get_document_ids" -> "[]"
      [] op = "finalize_legra" -> "False"

\* Lines 137, 155, 212, 228: `if not service`.
ServiceNeverMissing(ret) == FALSE

ServiceMissing(ret) == ret = None

NoOp ==
    [op |-> "none", call |-> None, result |-> "none", provider |-> FALSE,
     raised |-> FALSE]

\* The rest of operation op after get_service returned ret; legra is the answer
\* of service.has_legra_provider().  A method call on None raises.
OpResult(op, ret, legra) ==
    IF ServiceMissing(ret)
    THEN [NoOp EXCEPT !.op = op, !.result = EmptyResult(op)]
    ELSE IF ret = None
    THEN [NoOp EXCEPT !.op = op, !.raised = TRUE]
    ELSE IF op = "finalize_legra" /\ ~legra
    THEN [NoOp EXCEPT !.op = op, !.result = "False"]
    ELSE [NoOp EXCEPT !.op = op, !.result = "service", !.provider = TRUE]

\* The operation that made get_service call t has run to its end.
Record(t, r) == [last |-> [r EXCEPT !.call = t], used |-> mop.used \cup {t}]

IdleRoute == [pc |-> "idle", kb |-> "k1", found |-> 0, todo |-> 0, fresh |-> {}]

\* A manager operation called by some client; t is its get_service call.
ManagerOp(t, op, legra) ==
    /\ UNCHANGED nonOpVars
    /\ task[t].pc = "done"
    /\ t \notin mop.used
    /\ op = "finalize_legra" \/ legra
    /\ mop' = Record(t, OpResult(op, task[t].ret, legra))
    /\ UNCHANGED route

\* Route line 162: doc_ids = await rag_manager.get_document_ids(kb); the service
\* lists n documents.
RouteGetDocumentIds(t, n) ==
    /\ UNCHANGED nonOpVars
    /\ route.pc = "idle"
    /\ task[t].pc = "done"
    /\ t \notin mop.used
    /\ LET r == OpResult("get_document_ids", task[t].ret, TRUE)
           count == IF r.provider THEN n ELSE 0
       IN  /\ mop' = Record(t, r)
           /\ route' = [pc |-> IF r.raised THEN "raised"
                               ELSE IF count = 0 THEN "drop" ELSE "loop",
                        kb |-> task[t].kb,
                        found |-> count,
                        todo |-> count,
                        fresh |-> {u \in Tasks : task[u].pc = "idle"}]

\* Route lines 163-164: await rag_manager.delete_document(kb, doc_id); u is the
\* get_service call made by it, started after the listing.
RouteDeleteDocument(u) ==
    /\ UNCHANGED nonOpVars
    /\ route.pc = "loop"
    /\ u \in route.fresh
    /\ task[u].pc = "done"
    /\ task[u].kb = route.kb
    /\ u \notin mop.used
    /\ LET r == OpResult("delete_document", task[u].ret, TRUE)
       IN  /\ mop' = Record(u, r)
           /\ route' = [route EXCEPT
                           !.pc = IF r.raised THEN "raised"
                                  ELSE IF route.todo = 1 THEN "drop" ELSE "loop",
                           !.todo = @ - 1,
                           !.fresh = @ \ {u}]

\* Route lines 166-168: the row is deleted and the route returns.
RouteDeleteRow ==
    /\ UNCHANGED nonOpVars
    /\ route.pc = "drop"
    /\ route' = [route EXCEPT !.pc = "deleted"]
    /\ UNCHANGED mop

InitOps ==
    /\ mop = [last |-> NoOp, used |-> {}]
    /\ route = IdleRoute

\* No get_service call has returned to an operation that has not gone on yet:
\* the operation runs on from `await self.get_service(...)` without yielding,
\* so nothing else runs in between.
Settled == \A t \in Tasks : task[t].pc = "done" => t \in mop.used

\* The operations are called one after the other: a call starts when no
\* get_service call is suspended.
NoneSuspended == \A t \in Tasks : task[t].pc \in {"idle", "done"}

NextOps ==
    \/ \E t \in Tasks, kb \in KBs, cfg \in CfgOutcomes :
           Settled /\ NoneSuspended /\ GetServiceStart(t, kb, cfg)
    \/ \E t \in Tasks, res \in InitOutcomes : InitializeReturns(t, res)
    \/ \E t \in Tasks, op \in ManagerOps, legra \in BOOLEAN : ManagerOp(t, op, legra)
    \/ \E t \in Tasks, n \in 0..MaxRouteDocs : RouteGetDocumentIds(t, n)
    \/ \E u \in Tasks : RouteDeleteDocument(u)
    \/ RouteDeleteRow

\* ================================================================== Part 5
\* The providers: GraphDBProvider (modules/agents/data/providers/
\* graph_db_provider.py) and LightRAGProvider (light_rag_provider.py).
\* Strings that are compared by prefix are sequences of pieces; a piece is a
\* literal of the format string or one character of a knowledge-base id.

\* Most Document nodes, and most LightRAG texts, of a run.
MaxNodes == 2

\* Knowledge-base ids as strings.
KbIdStrings == {<<"a">>, <<"b">>, <<"a", "#", "b">>}

\* f"KB:{kb_id}#"
KbPrefix(kb) == <<"KB:">> \o kb \o <<"#">>

\* The part of a doc id after the prefix: "content" or "file_{idx}:{locator}".
DocTails == {<<"content">>, <<"file_0:/a">>}

ProviderDocId(kb, tl) == KbPrefix(kb) \o tl

ProviderDocIds == {ProviderDocId(kb, tl) : kb \in KbIdStrings, tl \in DocTails}

\* str.startswith / Cypher STARTS WITH
StartsWith(str, prefix) ==
    Len(prefix) <= Len(str) /\ SubSeq(str, 1, Len(prefix)) = prefix

\* Document contents and the chunks text_splitter.split_text cuts them into.
Contents == {"c1", "c2"}

SplitText(content) ==
    IF content = "c1" THEN <<"c1/0">> ELSE <<"c2/0", "c2/1">>

\* `if not self.graph: if not self.initialize(): return ...`: initialize()
\* connects (lines 31-38) and _create_schema creates the uniqueness constraints
\* or only logs its failure (lines 49-72).
LazyInitialize(g, initOk, schemaOk) ==
    IF g # "none" THEN g
    ELSE IF ~initOk THEN "none"
    ELSE IF schemaOk THEN "unique" ELSE "plain"

\* The outcomes of initialize() are consulted only when self.graph is unset.
InitConsulted(g, initOk, schemaOk) == g # "none" => (initOk /\ schemaOk)

\* failed: the lazy initialisation or a backend call of the operation failed;
\* query, limit, found (the doc ids of the keyword stage) and results belong to
\* GraphDBProvider.search, removed (the knowledge bases whose documents the
\* operation deleted) to the deletions.
NoRet ==
    [op |-> "none", id |-> <<>>, kb |-> <<>>, content |-> "none", ret |-> FALSE,
     existed |-> FALSE, ids |-> {}, failed |-> FALSE, query |-> <<>>, limit |-> 0,
     found |-> {}, results |-> <<>>, removed |-> {}]

\* The words of a chunk of text.
ChunkText(chunk) ==
    IF chunk = "c1/0" THEN <<"refund", "policy">>
    ELSE IF chunk = "c2/0" THEN <<"the", "refund">>
    ELSE <<"the", "fund", "shipping">>

StopWords == {"the"}

\* _extract_keywords, lines 385-404: the lower-cased words that are no stop
\* words and longer than two characters (every word used here is); the cap of
\* 15 keywords is not reached by the texts used here.
ExtractKeywords(words) == {words[i] : i \in {j \in DOMAIN words : words[j] \notin StopWords}}

FreeNode == CHOOSE n \in 1..MaxNodes :
                /\ \A d \in gdocs : d.n # n
                /\ \A m \in 1..(n - 1) : \E d \in gdocs : d.n = m

\* GraphDBProvider.add_document, lines 74-180; the document is added under
\* knowledge base kb with the doc id KB:{kb}#{tl}.
GraphAddDocument(kb, tl, content, initOk, schemaOk) ==
    /\ UNCHANGED nonGraphVars
    /\ InitConsulted(graph, initOk, schemaOk)
    /\ Cardinality(gdocs) < MaxNodes
    /\ LET g == LazyInitialize(graph, initOk, schemaOk)
           id == ProviderDocId(kb, tl)
           existed == \E d \in gdocs : d.id = id
           ret(r) == [NoRet EXCEPT !.op = "add", !.id = id, !.kb = kb,
                                   !.content = content, !.ret = r,
                                   !.existed = existed, !.failed = ~r]
           chunks == SplitText(content)
       IN  /\ graph' = g
           /\ IF g = "none"
              THEN \* lines 77-79
                   /\ gret' = ret(FALSE)
                   /\ UNCHANGED <<gdocs, gchunks>>
              ELSE \* line 82: self.delete_document(doc_id) is not awaited: the
                   \* coroutine object is dropped and its body never runs.
                   IF g = "unique" /\ existed
                   THEN \* lines 95-103: CREATE violates the constraint on
                        \* Document.id; the handler of line 178 returns False
                        /\ gret' = ret(FALSE)
                        /\ UNCHANGED <<gdocs, gchunks>>
                   ELSE \* lines 95-177
                        /\ gdocs' = gdocs \cup {[n |-> FreeNode, id |-> id,
                                                 content |-> content, under |-> kb]}
                        \* lines 128-177; `MATCH (c:Chunk {chunk_id: ...})
                        \* MERGE (c)-[:HAS_KEYWORD]->(k)` also reaches an older
                        \* chunk that has the same chunk_id
                        /\ gchunks' =
                               {[c EXCEPT !.kws = c.kws \cup
                                     UNION {ExtractKeywords(ChunkText(chunks[i])) :
                                            i \in {j \in DOMAIN chunks :
                                                c.chunk_id = <<id, "_chunk_", j - 1>>}}]
                                : c \in gchunks}
                               \cup
                               {[chunk_id |-> <<id, "_chunk_", i - 1>>, doc_id |-> id,
                                 content |-> chunks[i], n |-> FreeNode,
                                 kws |-> ExtractKeywords(ChunkText(chunks[i]))]
                                : i \in DOMAIN chunks}
                        /\ gret' = ret(TRUE)

\* GraphDBProvider.delete_document, lines 182-215, called as operation op on
\* behalf of knowledge base kb: `MATCH (d:Document {id: $doc_id})` selects by
\* the doc id alone.
GraphDelete(op, kb, id, initOk, schemaOk) ==
    /\ UNCHANGED nonGraphVars
    /\ InitConsulted(graph, initOk, schemaOk)
    /\ LET g == LazyInitialize(graph, initOk, schemaOk)
           ret(r) == [NoRet EXCEPT !.op = op, !.kb = kb, !.id = id, !.ret = r,
                                   !.existed = \E d \in gdocs : d.id = id,
                                   !.failed = ~r]
       IN  /\ graph' = g
           /\ IF g = "none"
              THEN /\ gret' = ret(FALSE)
                   /\ UNCHANGED <<gdocs, gchunks>>
              ELSE /\ gchunks' = {c \in gchunks :
                                     ~\E d \in gdocs : d.id = id /\ c.n = d.n}
                   /\ gdocs' = {d \in gdocs : d.id # id}
                   /\ gret' = [ret(TRUE) EXCEPT !.removed =
                                   {d.under : d \in {e \in gdocs : e.id = id}}]

GraphDeleteDocument(id, initOk, schemaOk) == GraphDelete("delete", <<>>, id, initOk, schemaOk)

\* AgentRAGServiceManager.delete_document(kb, doc_id), manager.py lines 143-159,
\* as the route delete_knowledge_doc calls it with the doc id of the URL: the
\* service of kb is resolved and the doc id is handed to it unchanged; the
\* service passes it to the provider, whose store all knowledge bases share.
ManagerDeleteDocument(kb, id, initOk, schemaOk) ==
    GraphDelete("manager_delete", kb, id, initOk, schemaOk)

\* GraphDBProvider.get_document_ids, lines 406-428.
GraphGetDocumentIds(kb, initOk, schemaOk) ==
    /\ UNCHANGED nonGraphVars
    /\ InitConsulted(graph, initOk, schemaOk)
    /\ LET g == LazyInitialize(graph, initOk, schemaOk)
           ids == IF g = "none" THEN {}
                  ELSE {d.id : d \in {e \in gdocs : StartsWith(e.id, KbPrefix(kb))}}
       IN  /\ graph' = g
           /\ gret' = [NoRet EXCEPT !.op = "get_document_ids", !.kb = kb,
                                    !.ids = ids, !.ret = g # "none",
                                    !.failed = g = "none"]
           /\ UNCHANGED <<gdocs, gchunks>>

\* ------------------------------------------------------------------ search
\* The queries of a search, as words, and its limits.
Queries == {<<"refund", "policy">>, <<"refund", "shipping">>, <<"the">>, <<"fund">>}

GraphLimits == {0, 1, 2}

\* w is a substring of the word v.
SubstringOf(w, v) == w = v \/ (w = "fund" /\ v = "refund")

\* Cypher `c.content CONTAINS $query`: the query is a substring of the text.
\* Between words the match is exact; the first word of the query may end a
\* word of the text (none of the words used here begins another one).
Contains(text, q) ==
    \E i \in 1..(Len(text) - Len(q) + 1) :
        /\ SubstringOf(q[1], text[i])
        /\ \A j \in 2..Len(q) : q[j] = text[i + j - 1]

\* Scores are fractions <<numerator, denominator>>.
Half == <<1, 2>>

ScoreGeq(a, b) == a[1] * b[2] >= b[1] * a[2]

ScoreEq(a, b) == a[1] * b[2] = b[1] * a[2]

\* `count(DISTINCT k) as matches` of one chunk, line 240.
Matches(c, keywords) == Cardinality(c.kws \cap keywords)

\* `AND c.doc_id IN $doc_ids`, added when doc_ids is given and not empty.
InDocIds(c, doc_ids) == doc_ids = {} \/ c.doc_id \in doc_ids

\* `ORDER BY matches DESC LIMIT n`: the sets of rows the database may keep.
TopRows(rows, keywords, n) ==
    {kept \in SUBSET rows :
        /\ Cardinality(kept) = Min(n, Cardinality(rows))
        /\ \A k \in kept, o \in rows \ kept : Matches(k, keywords) >= Matches(o, keywords)}

\* `LIMIT n` without an order.
AnyRows(rows, n) == {kept \in SUBSET rows : Cardinality(kept) = Min(n, Cardinality(rows))}

\* The number of distinct query keywords the chunks of a document match
\* between them.
DocumentMatches(chunks, keywords) ==
    Cardinality(UNION {c.kws \cap keywords : c \in chunks})

\* Lines 265-281: the score of a chunk is matches / len(keywords), and
\* `best_score` of a document is the highest score of its chunks.
BestMatches(chunks, keywords) ==
    CHOOSE m \in {Matches(c, keywords) : c \in chunks} :
        \A c \in chunks : Matches(c, keywords) <= m

\* `AND NOT c.doc_id IN $existing_ids`, lines 313-315.
ExcludesNothing(id, existing) == FALSE

Existing(id, existing) == id \in existing

\* The orders in which `results.sort(key=score, reverse=True)` (line 378) can
\* leave the results: the sort is stable, the keyword results were appended
\* first and best first, the order of rows of equal rank is the database's.
SortedResults(R) ==
    {s \in [1..Cardinality(R) -> R] :
        /\ \A i, j \in DOMAIN s : i # j => s[i] # s[j]
        /\ \A i, j \in DOMAIN s : i < j =>
               /\ ScoreGeq(s[i].score, s[j].score)
               /\ ScoreEq(s[i].score, s[j].score) =>
                      ~(s[i].stage = "content" /\ s[j].stage = "keyword")}

\* GraphDBProvider.search, lines 217-383.  queryOk: the Cypher queries succeed.
GraphSearch(query, limit, doc_ids, initOk, schemaOk, queryOk) ==
    /\ UNCHANGED nonGraphVars
    /\ InitConsulted(graph, initOk, schemaOk)
    /\ LET g == LazyInitialize(graph, initOk, schemaOk)
           keywords == ExtractKeywords(query)
           \* lines 235-247
           rows == IF keywords = {} THEN {}
                   ELSE {c \in gchunks : Matches(c, keywords) > 0 /\ InDocIds(c, doc_ids)}
           ret(r) == [NoRet EXCEPT !.op = "search", !.query = query, !.limit = limit,
                                   !.ids = doc_ids, !.ret = r, !.failed = ~r]
       IN  /\ graph' = g
           /\ UNCHANGED <<gdocs, gchunks>>
           /\ g = "none" => queryOk
           /\ IF g = "none" \/ ~queryOk
              THEN \* lines 230-232, and the handler of lines 381-383
                   gret' = ret(FALSE)
              ELSE \E kept \in TopRows(rows, keywords, limit * 3) :
                      LET found == {c.doc_id : c \in kept}
                          \* lines 249-302
                          byKeyword ==
                              {[id |-> id, stage |-> "keyword",
                                score |-> <<BestMatches({c \in kept : c.doc_id = id},
                                                        keywords),
                                            Cardinality(keywords)>>] : id \in found}
                          \* lines 305-320: `if len(results) < limit:`
                          remaining == limit - Cardinality(found)
                          candidates ==
                              {c \in gchunks : /\ Contains(ChunkText(c.content), query)
                                               /\ InDocIds(c, doc_ids)
                                               /\ ~Existing(c.doc_id, found)}
                          fallback ==
                              IF Cardinality(found) < limit
                              THEN AnyRows(candidates, remaining * 3)
                              ELSE {{}}
                      IN  \E more \in fallback :
                             \* lines 322-376
                             LET byContent == {[id |-> c.doc_id, stage |-> "content",
                                                score |-> Half] : c \in more}
                             IN  \E s \in SortedResults(byKeyword \cup byContent) :
                                    gret' = [ret(TRUE) EXCEPT !.found = found,
                                                             !.results = Slice(s, limit)]

InitGraph ==
    /\ graph = "none"
    /\ gdocs = {}
    /\ gchunks = {}
    /\ gret = NoRet

NextGraph ==
    \/ \E kb \in KbIdStrings, tl \in DocTails, c \in Contents, i, k \in BOOLEAN :
           GraphAddDocument(kb, tl, c, i, k)
    \/ \E id \in ProviderDocIds, i, k \in BOOLEAN : GraphDeleteDocument(id, i, k)
    \/ \E kb \in KbIdStrings, i, k \in BOOLEAN : GraphGetDocumentIds(kb, i, k)
    \/ \E kb \in KbIdStrings, id \in ProviderDocIds, i, k \in BOOLEAN :
           ManagerDeleteDocument(kb, id, i, k)

\* The documents searched belong to one knowledge base.
NextGraphSearch ==
    \/ \E tl \in DocTails, c \in Contents, i, k \in BOOLEAN :
           GraphAddDocument(<<"a">>, tl, c, i, k)
    \/ \E q \in Queries, limit \in GraphLimits, i, k, ok \in BOOLEAN,
          f \in {{}} \cup {{d.id} : d \in gdocs} :
           GraphSearch(q, limit, f, i, k, ok)

\* ------------------------------------------------------------------ LightRAG
\* The id LightRAG gives a text inserted without ids: derived from the text.
LightRagId(text) == <<"doc-", text.id, text.content>>

\* `if not self.rag: if not await self.initialize(): return ...`
\* LightRAGProvider.add_document, lines 77-96: the text is inserted into the
\* LightRAG storage; _document_map is not written.
LightAddDocument(kb, tl, content, initOk, insertOk) ==
    /\ UNCHANGED nonLightVars
    /\ rag => initOk
    /\ (~rag /\ ~initOk) => insertOk
    /\ Cardinality(ragDocs) < MaxNodes
    /\ LET id == ProviderDocId(kb, tl)
           up == rag \/ initOk
           ok == up /\ insertOk
       IN  /\ rag' = up
           /\ ragDocs' = IF ok
                         THEN ragDocs \cup {[id |-> id, content |-> content, under |-> kb]}
                         ELSE ragDocs
           /\ lret' = [NoRet EXCEPT !.op = "add", !.id = id, !.kb = kb,
                                    !.content = content, !.ret = ok,
                                    !.existed = \E d \in ragDocs : d.id = id,
                                    !.failed = ~ok]
           /\ UNCHANGED documentMap

\* LightRAGProvider.delete_document, lines 102-126.  `not self.initialize()` is
\* false (an un-awaited coroutine object is truthy); the doc id is dropped from
\* _document_map; the deletion from LightRAG is commented out (line 116).
\* initOk: what initialize() would return if it ran.
LightDeleteDocument(id, initOk) ==
    /\ UNCHANGED nonLightVars
    /\ rag => initOk
    /\ documentMap' = documentMap \ {id}
    /\ lret' = [NoRet EXCEPT !.op = "delete", !.id = id, !.ret = TRUE,
                             !.existed = \E d \in ragDocs : d.id = id,
                             !.failed = ~rag /\ ~initOk]
    /\ UNCHANGED <<rag, ragDocs>>

\* LightRAGProvider.search, lines 133-150, with _search_documents, lines
\* 152-210: two formatted results, sorted by score and cut to the limit.
\* queryOk: self.rag.aquery and the parsing of its answer succeed.
LightSearch(limit, initOk, queryOk) ==
    /\ UNCHANGED nonLightVars
    /\ rag => initOk
    /\ (~rag /\ ~initOk) => queryOk
    /\ LET up == rag \/ initOk
           ok == up /\ queryOk
           formatted == <<[id |-> "1", score |-> 1], [id |-> "unknown_id", score |-> 0]>>
       IN  /\ rag' = up
           /\ lret' = [NoRet EXCEPT !.op = "search", !.limit = limit, !.ret = ok,
                                    !.failed = ~ok,
                                    !.results = IF ok THEN Slice(formatted, limit)
                                                ELSE <<>>]
           /\ UNCHANGED <<ragDocs, documentMap>>

\* LightRAGProvider.get_document_ids, lines 212-243.  listing: what
\* self.rag.get_all_documents() does when the map has no id of the knowledge base.
LightGetDocumentIds(kb, initOk, listing) ==
    /\ UNCHANGED nonLightVars
    /\ rag => initOk
    /\ LET up == rag \/ initOk
           known == {id \in documentMap : StartsWith(id, KbPrefix(kb))}
           listed == IF known = {} /\ listing = "docs"
                     THEN {LightRagId(d) : d \in {e \in ragDocs :
                               StartsWith(LightRagId(e), KbPrefix(kb))}}
                     ELSE {}
       IN  /\ rag' = up
           /\ documentMap' = IF up THEN documentMap \cup listed ELSE documentMap
           /\ lret' = [NoRet EXCEPT !.op = "get_document_ids", !.kb = kb,
                                    !.ids = IF up THEN known \cup listed ELSE {},
                                    !.ret = up,
                                    !.failed = ~up \/ (known = {} /\ listing = "raise")]
           /\ UNCHANGED ragDocs

InitLight ==
    /\ rag = FALSE
    /\ ragDocs = {}
    /\ documentMap = {}
    /\ lret = NoRet

NextLight ==
    \/ \E kb \in KbIdStrings, tl \in DocTails, c \in Contents, i, k \in BOOLEAN :
           LightAddDocument(kb, tl, c, i, k)
    \/ \E id \in ProviderDocIds, i \in BOOLEAN : LightDeleteDocument(id, i)
    \/ \E limit \in GraphLimits, i, ok \in BOOLEAN : LightSearch(limit, i, ok)
    \/ \E kb \in KbIdStrings, i \in BOOLEAN, listing \in {"raise", "docs"} :
           LightGetDocumentIds(kb, i, listing)

\* ================================================================== Part 6
\* LogAggregator (backend/app/core/config/log_aggregator.py): request metrics
\* behind self._metrics_lock, a threading.Lock, which is not reentrant.  The
\* callers are threads; a step is what a thread does once it has the lock.

\* Most requests recorded between two resets.
MaxRequests == 2

AggThreads == {"t1", "t2"}

StatusCodes == {200, 404, 500}

\* RequestMetrics(), lines 14-23: the counters (status_codes and paths count
\* the same requests as total_requests, per code and per path).
ZeroMetrics == [total_requests |-> 0, errors |-> 0, warnings |-> 0, slow_requests |-> 0]

NoSummary == [total_requests |-> -1, errors |-> -1, warnings |-> -1, slow_requests |-> -1]

IdleThread == [pc |-> "idle", status |-> 200, slow |-> FALSE, ret |-> NoSummary]

\* __init__, lines 56-64.
InitAgg ==
    agg = [metrics |-> ZeroMetrics, holder |-> "none", enabled |-> TRUE,
           th |-> [t \in AggThreads |-> IdleThread]]

\* configure, lines 75-84.
Configure(enabled) ==
    /\ UNCHANGED nonAggVars
    /\ agg.enabled # enabled
    /\ agg' = [agg EXCEPT !.enabled = enabled]

\* record_request, lines 94-104: returns at once when disabled, else goes on to
\* `with self._metrics_lock`.
RecordRequest(t, status, slow) ==
    /\ UNCHANGED nonAggVars
    /\ agg.th[t].pc = "idle"
    /\ agg.metrics.total_requests < MaxRequests
    /\ agg.enabled => agg' = [agg EXCEPT !.th[t] = [IdleThread EXCEPT !.pc = "record",
                                                     !.status = status, !.slow = slow]]
    /\ ~agg.enabled => (status = 200 /\ ~slow /\ agg' = [agg EXCEPT !.th[t] = IdleThread])

\* record_request, lines 106-118: the counters are updated under the lock.
RecordUnderLock(t) ==
    /\ UNCHANGED nonAggVars
    /\ agg.th[t].pc = "record"
    /\ agg.holder = "none"
    /\ LET a == agg.th[t]
           m == agg.metrics
       IN  agg' = [agg EXCEPT
                     !.metrics = [total_requests |-> m.total_requests + 1,
                                  errors |-> m.errors + (IF a.status >= 500 THEN 1 ELSE 0),
                                  warnings |-> m.warnings +
                                      (IF a.status < 500 /\ a.status >= 400 THEN 1 ELSE 0),
                                  slow_requests |-> m.slow_requests +
                                      (IF a.slow THEN 1 ELSE 0)],
                     !.th[t] = IdleThread]

\* A call of get_summary, line 120, up to `with self._metrics_lock`.
GetSummary(t) ==
    /\ UNCHANGED nonAggVars
    /\ agg.th[t].pc = "idle"
    /\ agg' = [agg EXCEPT !.th[t] = [IdleThread EXCEPT !.pc = "summary"]]

\* A call of flush_and_reset, line 139, up to `with self._metrics_lock`.
FlushAndReset(t) ==
    /\ UNCHANGED nonAggVars
    /\ agg.th[t].pc = "idle"
    /\ agg' = [agg EXCEPT !.th[t] = [IdleThread EXCEPT !.pc = "flush"]]

\* flush_and_reset, lines 141-142: the lock is taken and get_summary is called
\* with the lock held.
FlushAcquire(t) ==
    /\ UNCHANGED nonAggVars
    /\ agg.th[t].pc = "flush"
    /\ agg.holder = "none"
    /\ agg' = [agg EXCEPT !.holder = t, !.th[t].pc = "flush_summary"]

\* get_summary, lines 122-137: the lock is taken, the summary built and the lock
\* released; when flush_and_reset made the call, its lines 143-144 follow.
SummaryUnderLock(t) ==
    /\ UNCHANGED nonAggVars
    /\ agg.th[t].pc \in {"summary", "flush_summary"}
    /\ agg.holder = "none"
    /\ agg' = [agg EXCEPT
                  !.metrics = IF agg.th[t].pc = "flush_summary" THEN ZeroMetrics ELSE @,
                  !.th[t] = [IdleThread EXCEPT !.ret = agg.metrics]]

NextAgg ==
    \/ \E e \in BOOLEAN : Configure(e)
    \/ \E t \in AggThreads, st \in StatusCodes, slow \in BOOLEAN : RecordRequest(t, st, slow)
    \/ \E t \in AggThreads : RecordUnderLock(t)
    \/ \E t \in AggThreads : GetSummary(t)
    \/ \E t \in AggThreads : FlushAndReset(t)
    \/ \E t \in AggThreads : FlushAcquire(t)
    \/ \E t \in AggThreads : SummaryUnderLock(t)

\* Every thread that can take a step is scheduled.
FairAgg ==
    \A t \in AggThreads :
        /\ WF_vars(RecordUnderLock(t))
        /\ WF_vars(FlushAcquire(t))
        /\ WF_vars(SummaryUnderLock(t))

\* ================================================================== Part 7
\* SocketConnectionManager (backend/app/modules/websockets/
\* socket_connection_manager.py) on one event loop.  A step of broadcast is
\* the code between two `await websocket.send_text(...)`.

\* Most websockets of one conversation.
MaxConns == 2

Websockets == {"w1", "w2", "w3"}

Convs == {"c1", "c2"}

\* `required_topic in topics`: w3 has not subscribed to the topic.
Subscribed(ws) == ws # "w3"

\* A conversation id that is no key of active_connections.
NoKey == <<"absent">>

\* self.active_connections.get(conversation_id, [])
ConnsOf(conns, conv) == IF conns[conv] = NoKey THEN <<>> ELSE conns[conv]

\* Lines 24-25: `if not self.active_connections[conversation_id]: del ...`
KeepEmpty(lst) == lst

DropIfEmpty(lst) == IF lst = <<>> THEN NoKey ELSE lst

\* disconnect, lines 19-25: the key is bound to a new list without the
\* websocket and removed when that list is empty.
Disconnected(conns, conv, ws) ==
    [conns EXCEPT ![conv] =
        DropIfEmpty(SelectSeq(ConnsOf(conns, conv), LAMBDA w : w # ws))]

\* The broadcast in progress: list is the list object the loop iterates, live
\* tells whether the key is still bound to that object, i is the position of
\* the websocket whose send is awaited; start, attempted, failed, and the map
\* before and after the last failure, record what happened.
IdleBroadcast ==
    [pc |-> "idle", conv |-> "c1", list |-> <<>>, live |-> FALSE, i |-> 0,
     start |-> <<>>, attempted |-> {}, failed |-> {}, last |-> "none",
     before |-> [c \in Convs |-> NoKey], after |-> [c \in Convs |-> NoKey]]

InitSock == sock = [conns |-> [c \in Convs |-> NoKey], bc |-> IdleBroadcast]

\* Lines 33-38: the loop goes on to the next websocket that has the topic and
\* awaits its send_text, or ends.
Advance(b, lst) ==
    LET later == {j \in DOMAIN lst : j > b.i /\ Subscribed(lst[j])}
    IN  IF later = {}
        THEN [b EXCEPT !.pc = "done", !.list = lst, !.i = Len(lst) + 1]
        ELSE LET j == CHOOSE k \in later : \A m \in later : k <= m
             IN  [b EXCEPT !.pc = "sending", !.list = lst, !.i = j,
                           !.attempted = @ \cup {lst[j]}]

\* connect, lines 15-17; a websocket object is connected once.
Connect(ws, conv) ==
    /\ UNCHANGED nonSockVars
    /\ \A c \in Convs : \A i \in DOMAIN ConnsOf(sock.conns, c) : sock.conns[c][i] # ws
    /\ ws \notin sock.bc.failed
    /\ Len(ConnsOf(sock.conns, conv)) < MaxConns
    /\ LET b == sock.bc
           seen == b.pc = "sending" /\ b.live /\ b.conv = conv
       IN  sock' = [conns |-> [sock.conns EXCEPT ![conv] =
                                  Append(ConnsOf(sock.conns, conv), ws)],
                    bc |-> IF seen THEN [b EXCEPT !.list = Append(@, ws)] ELSE b]

\* disconnect(websocket, conversation_id), lines 19-25, called by the
\* websocket route when the client has gone.
SocketDisconnect(ws, conv) ==
    /\ UNCHANGED nonSockVars
    /\ \E i \in DOMAIN ConnsOf(sock.conns, conv) : sock.conns[conv][i] = ws
    /\ sock' = [conns |-> Disconnected(sock.conns, conv, ws),
                bc |-> IF sock.bc.conv = conv /\ sock.bc.pc = "sending"
                       THEN [sock.bc EXCEPT !.live = FALSE] ELSE sock.bc]

\* broadcast, lines 27-38, up to the first awaited send.
Broadcast(conv) ==
    /\ UNCHANGED nonSockVars
    /\ sock.bc.pc \in {"idle", "done"}
    /\ LET lst == ConnsOf(sock.conns, conv)
       IN  sock' = [sock EXCEPT !.bc =
                       Advance([IdleBroadcast EXCEPT !.conv = conv, !.start = lst,
                                    !.live = sock.conns[conv] # NoKey], lst)]

\* broadcast, lines 38-41 and 33-38: the awaited send_text returns (ok) or
\* raises; the handler disconnects the websocket; the loop goes on.
SendReturns(ok) ==
    /\ UNCHANGED nonSockVars
    /\ sock.bc.pc = "sending"
    /\ LET b == sock.bc
           ws == b.list[b.i]
           after == Disconnected(sock.conns, b.conv, ws)
       IN  IF ok
           THEN sock' = [sock EXCEPT !.bc = Advance(b, b.list)]
           ELSE sock' = [conns |-> after,
                         bc |-> Advance([b EXCEPT !.failed = @ \cup {ws}, !.live = FALSE,
                                                  !.last = ws, !.before = sock.conns,
                                                  !.after = after], b.list)]

NextSock ==
    \/ \E ws \in Websockets, conv \in Convs : Connect(ws, conv)
    \/ \E ws \in Websockets, conv \in Convs : SocketDisconnect(ws, conv)
    \/ \E conv \in Convs : Broadcast(conv)
    \/ \E ok \in BOOLEAN : SendReturns(ok)

\* ------------------------------------------------------------------ Part 8
\* WorkflowManager (backend/app/modules/workflow/manage/workflow_manager.py):
\* the wizard generators.  json_nodes, json_edges and node_id_mapping are
\* assigned in the class body, so every instance reads and appends to the same
\* three objects.

\* Cap on the nodes the wizard calls of a run generate in total.
MaxWizNodes == 4

\* Cap on the edges the wizard calls of a run append to json_edges.
MaxWizEdges == 2

\* WorkflowManager instances.
Managers == {"m1", "m2"}

\* node["node_name"] of a wizard step.
NodeTypes == {"chat", "llm"}

\* input_data["workflow"]: one or two steps.
WizInputs == {<<ty>> : ty \in NodeTypes} \cup (NodeTypes \X NodeTypes)

\* node["uniqueId"] of the step at a position of the wizard input.
UniqueId(index) == index

\* str(uuid4()): an id no earlier node has; nodes are only ever appended, so
\* the number of nodes generated so far names a fresh one.
Uuid4(nodes) == Len(nodes) + 1

\* _gen_node_from_type(node_type, name, idx), lines 67-92.
GenNodeFromType(nodes, node_type, idx) ==
    [id |-> Uuid4(nodes), type |-> node_type, x |-> idx * 500 + 50]

\* The loop of generate_nodes_from_wizard over the steps from position i on:
\* each node is appended to json_nodes.
RECURSIVE AppendNodes(_, _, _)
AppendNodes(nodes, input, i) ==
    IF i > Len(input) THEN nodes
    ELSE AppendNodes(Append(nodes, GenNodeFromType(nodes, input[i], i - 1)), input, i + 1)

\* The edge generate_edges_from_wizard builds at position index (0-based) of
\* the input: from json_nodes[index - 1] to json_nodes[index].
EdgeAt(nodes, index) == [source |-> nodes[index].id, target |-> nodes[index + 1].id]

\* No wizard call has returned.
NoWizRet == [op |-> "none", inst |-> "none", input |-> <<>>, nodes |-> <<>>,
             edges |-> <<>>, raised |-> FALSE]

\* The latest generate_nodes_from_wizard call of an instance: its input and the
\* ids it generated (bookkeeping of the model, not a field of the class).
NoGen == [input |-> <<>>, ids |-> <<>>]

InitWiz ==
    wiz = [json_nodes |-> <<>>, json_edges |-> <<>>,
           node_id_mapping |-> [u \in {} |-> 0],
           gen |-> [m \in Managers |-> NoGen],
           ret |-> NoWizRet]

\* generate_nodes_from_wizard(input_data) on instance m, lines 245-260.
GenerateNodesFromWizard(m, input) ==
    /\ UNCHANGED nonWizVars
    /\ Len(wiz.json_nodes) + Len(input) <= MaxWizNodes
    /\ LET before == wiz.json_nodes
           after == AppendNodes(before, input, 1)
           ids == [i \in 1..Len(input) |-> after[Len(before) + i].id]
           keys == {UniqueId(i) : i \in 1..Len(input)}
       IN  wiz' = [wiz EXCEPT
                     !.json_nodes = after,
                     !.node_id_mapping =
                         [u \in DOMAIN @ \cup keys |->
                             IF u \in keys THEN ids[u] ELSE @[u]],
                     !.gen[m] = [input |-> input, ids |-> ids],
                     !.ret = [op |-> "nodes", inst |-> m, input |-> input,
                              nodes |-> after, edges |-> <<>>, raised |-> FALSE]]

\* generate_edges_from_wizard(input_data) on instance m, lines 262-289.  The
\* subscript json_nodes[index] raises IndexError when the class has fewer nodes
\* than the input has steps; the edges built before it stay in json_edges.
GenerateEdgesFromWizard(m, input) ==
    /\ UNCHANGED nonWizVars
    /\ LET nodes == wiz.json_nodes
           built == {index \in 1..(Len(input) - 1) : index + 1 <= Len(nodes)}
           output_edges == [index \in built |-> EdgeAt(nodes, index)]
           raised == Cardinality(built) < Len(input) - 1
       IN  /\ Len(wiz.json_edges) + Cardinality(built) <= MaxWizEdges
           /\ wiz' = [wiz EXCEPT
                         !.json_edges = @ \o output_edges,
                         !.ret = [op |-> "edges", inst |-> m, input |-> input,
                                  nodes |-> <<>>,
                                  edges |-> IF raised THEN <<>> ELSE output_edges,
                                  raised |-> raised]]

NextWiz ==
    \/ \E m \in Managers, input \in WizInputs : GenerateNodesFromWizard(m, input)
    \/ \E m \in Managers, input \in WizInputs : GenerateEdgesFromWizard(m, input)

\* The event loop runs every task that is ready: a waiter whose lock was
\* released, and a call whose initialize() has terminated.
FairRegistry ==
    \A t \in Tasks :
        /\ WF_vars(\E cfg \in CfgOutcomes : GetServiceResume(t, cfg))
        /\ WF_vars(\E res \in InitOutcomes : InitializeReturns(t, res))

\* ------------------------------------------------------------------ specifications
NextRegistry ==
    \/ \E t \in Tasks, kb \in KBs, cfg \in CfgOutcomes : GetServiceStart(t, kb, cfg)
    \/ \E t \in Tasks, cfg \in CfgOutcomes : GetServiceResume(t, cfg)
    \/ \E t \in Tasks, res \in InitOutcomes : InitializeReturns(t, res)
    \/ \E kb \in KBs : CleanupService(kb)
    \/ CleanupAll
    \/ \E i \in Tasks : Disconnect(i)

Init ==
    /\ InitRegistry /\ InitLoad /\ InitSearch /\ InitOps /\ InitGraph /\ InitLight
    /\ InitAgg /\ InitSock /\ InitWiz

\* The registry under get_service, cleanup and disconnects.
Next == NextRegistry

Spec == Init /\ [][Next]_vars

\* get_service calls for one knowledge base, its cleanup and disconnects, with
\* every ready task scheduled and every initialize() terminating.
NextLive ==
    \/ \E t \in Tasks, cfg \in CfgOutcomes : GetServiceStart(t, "k1", cfg)
    \/ \E t \in Tasks, cfg \in CfgOutcomes : GetServiceResume(t, cfg)
    \/ \E t \in Tasks, res \in InitOutcomes : InitializeReturns(t, res)
    \/ CleanupService("k1")
    \/ \E i \in Tasks : Disconnect(i)

SpecLive == Init /\ [][NextLive]_vars /\ FairRegistry

\* N get_service calls launched together (none has returned when the last one
\* starts), no cleanup and no provider disconnect.
NextRace ==
    \/ \E t \in Tasks, kb \in KBs, cfg \in CfgOutcomes :
           /\ \A u \in Tasks : task[u].pc # "done"
           /\ GetServiceStart(t, kb, cfg)
    \/ \E t \in Tasks, cfg \in CfgOutcomes : GetServiceResume(t, cfg)
    \/ \E t \in Tasks, res \in InitOutcomes : InitializeReturns(t, res)

SpecRace == Init /\ [][NextRace]_vars

\* One load_knowledge_items call with nothing else running.
NextLoad == NextLoad1

SpecLoad == Init /\ [][NextLoad]_vars

\* Two update requests for one knowledge base.
SpecLoad2 == Init /\ [][NextLoad2]_vars

\* One manager.search call.
SpecSearch == Init /\ [][NextSearch]_vars

\* The manager operations and the delete route, called one after the other.
SpecOps == Init /\ [][NextOps]_vars

\* Operations on one GraphDBProvider, one after the other.
SpecGraph == Init /\ [][NextGraph]_vars

\* Searches of one GraphDBProvider between additions of documents.
SpecGraphSearch == Init /\ [][NextGraphSearch]_vars

\* The LogAggregator called from two threads.
SpecAgg == Init /\ [][NextAgg]_vars /\ FairAgg

\* One broadcast at a time, with clients connecting and disconnecting.
SpecSock == Init /\ [][NextSock]_vars

\* Wizard calls on WorkflowManager instances, one after the other.
SpecWiz == Init /\ [][NextWiz]_vars

\* Operations on one LightRAGProvider, one after the other.
SpecLight == Init /\ [][NextLight]_vars

\* ------------------------------------------------------------------ claims C1-C6
\* The get_service calls made for kb so far, and those that called initialize().
Calls(kb) == {t \in Tasks : task[t].pc # "idle" /\ task[t].kb = kb}

InitCalls(kb) == {t \in Calls(kb) : task[t].svc # None}

Initializing(kb) == {t \in Tasks : task[t].pc = "init" /\ task[t].kb = kb}

Returned(kb) == \A t \in Calls(kb) : task[t].pc = "done"

\* C1: at most one initialize() call per kb_id is in flight at any time, in every
\* interleaving of get_service, cleanup_service and cleanup_all.
C1_AtMostOneInitInFlight ==
    \A kb \in KBs : Cardinality(Initializing(kb)) <= 1

\* C2 as stated: N >= 2 calls for one never-cached kb_id launched together, no
\* cleanup: once all have returned, initialize() was invoked exactly once, whether
\* it succeeded or failed, and all calls returned the same result.
C2_ExactlyOneInitializeConsistent ==
    \A kb \in KBs :
        (/\ Cardinality(Calls(kb)) >= 2
         /\ Returned(kb)
         /\ \A t \in Calls(kb) : task[t].cfg \in {"ok", "none"})
        => /\ Cardinality(InitCalls(kb)) = 1
           /\ \A t, u \in Calls(kb) : task[t].ret = task[u].ret

\* C2 amended: the attempts of the racing calls never overlap; at most one of them
\* succeeds and no initialize() is in flight once one has succeeded (exactly one
\* invocation when the first attempt succeeds); every call that returns a service
\* returns the instance whose initialize() succeeded, and a call returns null only
\* when its own from_kb_config or initialize() failed.
C2_OneSuccessfulInitialize ==
    \A kb \in KBs :
        LET succeeded == {t \in InitCalls(kb) : task[t].initRes = "true"}
        IN  /\ Cardinality(Initializing(kb)) <= 1
            /\ Cardinality(succeeded) <= 1
            /\ succeeded # {} => /\ Initializing(kb) = {}
                                 /\ \A t \in succeeded : services[kb] = task[t].svc
            /\ \A t \in Calls(kb) : task[t].pc = "done" =>
                   /\ task[t].ret # None => task[t].ret \in succeeded
                   /\ task[t].ret = None =>
                          \/ task[t].cfg \in {"null", "raise"}
                          \/ task[t].initRes \in {"false", "raise"}
            /\ (/\ Returned(kb)
                /\ InitCalls(kb) = succeeded
                /\ \A t \in Calls(kb) : task[t].cfg \in {"ok", "none"})
                   => /\ Cardinality(InitCalls(kb)) <= 1
                      /\ \A t \in Calls(kb) : task[t].ret \in succeeded

\* Two racing calls have returned the same instance after a single initialize().
C2_Witness ==
    \E kb \in KBs :
        /\ Calls(kb) = Tasks
        /\ Returned(kb)
        /\ Cardinality(InitCalls(kb)) = 1
        /\ \E t \in InitCalls(kb) : \A u \in Tasks : task[u].ret = task[t].svc

\* C3: after a cleanup of kb_id has completed, the cache holds no entry for kb_id
\* that was inserted by a get_service call already in flight when the cleanup ran.
C3_NoEntryFromCallBeforeCleanup ==
    \A kb \in KBs : services[kb] # None => ~task[services[kb]].cleaned

\* C4: every insertion into or removal from the service map and the lock map is
\* made while the registry-level lock is held.
C4_MutationsUnderRegistryLock ==
    \A m \in mutations : m.locked

\* C5: get_service never returns a service that reports itself uninitialized; a
\* call that found a stale entry evicted it and returned null or an initialized
\* instance that it constructed itself, never the evicted object.
C5_NeverReturnsUninitialized ==
    \A t \in Tasks : task[t].pc = "done" =>
        /\ task[t].ret # None => task[t].retInit
        /\ task[t].evicted # None =>
               /\ \A kb \in KBs : task[t].kb = kb => services[kb] # task[t].evicted
               /\ \/ task[t].ret = None
                  \/ /\ task[t].ret # task[t].evicted
                     /\ task[t].ret = task[t].svc
                     /\ task[t].retInit

\* A call evicted a stale entry and returned the instance it rebuilt.
C5_Witness ==
    \E t \in Tasks :
        /\ task[t].pc = "done"
        /\ task[t].evicted # None
        /\ task[t].ret # None

\* C6: only an instance whose initialize() returned true is in the cache; a call
\* whose from_kb_config returned null or raised, or whose initialize() returned
\* false or raised, returns null, raises nothing and inserts nothing.
C6_CachedOnlyAfterSuccess ==
    /\ \A kb \in KBs : services[kb] # None => inst[services[kb]].initRet = "true"
    /\ \A t \in Tasks :
           (/\ task[t].pc = "done"
            /\ \/ task[t].cfg \in {"null", "raise"}
               \/ task[t].initRes \in {"false", "raise"})
           => /\ task[t].ret = None
              /\ ~task[t].raised
              /\ ~task[t].inserted
              /\ \A kb \in KBs : services[kb] # t

\* One call failed in initialize() and another one in from_kb_config.
C6_Witness ==
    \E t, u \in Tasks :
        /\ task[t].pc = "done" /\ task[t].initRes \in {"false", "raise"}
        /\ task[u].pc = "done" /\ task[u].cfg \in {"null", "raise"}

\* ------------------------------------------------------------------ claims C7-C10
\* The ids of the calls of kind op that the call made on the service of kb, in order.
RECURSIVE CallIds(_, _, _)
CallIds(log, op, kb) ==
    IF log = <<>> THEN <<>>
    ELSE (IF Head(log).op = op /\ Head(log).kb = kb THEN <<Head(log).id>> ELSE <<>>)
         \o CallIds(Tail(log), op, kb)

IsPrefix(a, b) == Len(a) <= Len(b) /\ \A i \in 1..Len(a) : a[i] = b[i]

\* The doc ids of the sub-units of an item.
RECURSIVE FileIds(_, _, _)
FileIds(kb, files, i) ==
    IF i > Len(files) THEN <<>>
    ELSE <<DocIdFile(kb, i - 1, files[i])>> \o FileIds(kb, files, i + 1)

SubUnitIds(item) ==
    IF item.type = "file" /\ item.files # <<>>
    THEN FileIds(item.id, item.files, 1)
    ELSE <<DocIdContent(item.id)>>

Range(f) == {f[i] : i \in DOMAIN f}

\* C7: with action "update", for each knowledge base one delete is issued per id
\* returned by get_document_ids, all of them before the first add_document for
\* that knowledge base, and no delete follows an add.
C7_DeletesBeforeAdds ==
    LET l == ld["L1"]
    IN  l.action = "update" =>
            /\ \A i, j \in DOMAIN l.log :
                   (i < j /\ l.log[i].op = "add" /\ l.log[j].op = "delete")
                   => l.log[i].kb # l.log[j].kb
            /\ \A kb \in KBs :
                   /\ IsPrefix(CallIds(l.log, "delete", kb), l.listed[kb])
                   /\ CallIds(l.log, "add", kb) # <<>> =>
                          /\ kb \in l.asked
                          /\ CallIds(l.log, "delete", kb) = l.listed[kb]

\* An update of k1 has deleted its three documents and then added a document.
C7_Witness ==
    LET l == ld["L1"]
    IN  /\ l.pc = "done"
        /\ l.action = "update"
        /\ Len(CallIds(l.log, "delete", "k1")) = Cardinality(OldDocs)
        /\ CallIds(l.log, "add", "k1") # <<>>

\* The call has returned, it was given one item, and neither the service
\* resolution nor an extraction or a download failed.
SingleItemNoFailure(l) ==
    /\ l.pc = "done"
    /\ Len(l.items) = 1
    /\ l.resolved = {l.items[1].id}
    /\ l.env = {}
    /\ \A i \in DOMAIN l.results : ~l.results[i].error

\* C8: after load_knowledge_items([item], "update") has returned, the ids stored
\* for the knowledge base are exactly the doc ids of the item's sub-units.
C8_UpdateLeavesNewDocumentSet ==
    LET l == ld["L1"]
    IN  (SingleItemNoFailure(l) /\ l.action = "update")
        => StoredIds(l.items[1].id) = Range(SubUnitIds(l.items[1]))

\* C9: for a file item with n string locators add_document is called exactly once
\* per index i with the doc id KB:{kb_id}#file_{i}:{files[i]}, and for an inline
\* text item exactly once with KB:{kb_id}#content.
C9_OneAddPerSubUnit ==
    LET l == ld["L1"]
    IN  (SingleItemNoFailure(l) /\ l.items[1].type \in {"file", "text"})
        => CallIds(l.log, "add", l.items[1].id) = SubUnitIds(l.items[1])

\* C10: when one file of a multi-file item fails to extract, the returned list
\* has an entry for that file with an error field, and the other files of the
\* item are still reported.
C10_FailedFileReportedWithError ==
    LET l == ld["L1"]
    IN  l.pc = "done" =>
            \A n \in DOMAIN l.items :
                (/\ l.items[n].type = "file"
                 /\ Len(l.items[n].files) >= 2
                 /\ l.items[n].id \in l.resolved)
                => LET ids == Range(SubUnitIds(l.items[n]))
                       reported(id) == \E i \in DOMAIN l.results : l.results[i].id = id
                       withError(id) == \E i \in DOMAIN l.results :
                                            l.results[i].id = id /\ l.results[i].error
                   IN  Cardinality(ids \cap l.env) = 1 =>
                           /\ \A id \in ids \cap l.env : withError(id)
                           /\ \A id \in ids \ l.env : reported(id)

\* ------------------------------------------------------------------ claims C11-C20
\* C11: load_knowledge_items never raises: when content resolution of an item
\* raises, also for the first item of the call, the error is recorded and the
\* call goes on to the later items and returns its result list.
C11_LoadNeverRaises ==
    ld["L1"].pc # "raised"

\* The results of the knowledge bases that resolved and whose search returned,
\* concatenated in kb_list order.
RECURSIVE Concat(_)
Concat(ss) == IF ss = <<>> THEN <<>> ELSE Head(ss) \o Concat(Tail(ss))

Resolvable == Concat(sr.got)

\* Source-then-original order of two results.
SourceOrder(a, b) == a.src < b.src \/ (a.src = b.src /\ a.pos < b.pos)

\* C12: for limit >= 0 search returns the first `limit` elements of the stable
\* sort by score descending of the concatenated results: non-increasing scores,
\* at most `limit` elements, no omitted result scores strictly higher than a
\* returned one, equal scores keep source-then-original order.
C12_MergeSortedStableTruncated ==
    (sr.pc = "done" /\ sr.limit >= 0) =>
        LET ret == sr.ret
            all == Range(Resolvable)
            omitted == all \ Range(ret)
        IN  /\ Len(ret) = Min(sr.limit, Len(Resolvable))
            /\ Range(ret) \subseteq all
            /\ \A i, j \in DOMAIN ret : i < j =>
                   /\ ret[i] # ret[j]
                   /\ ret[i].score >= ret[j].score
                   /\ ret[i].score = ret[j].score => SourceOrder(ret[i], ret[j])
            /\ \A o \in omitted : \A i \in DOMAIN ret :
                   /\ o.score <= ret[i].score
                   /\ o.score = ret[i].score => SourceOrder(ret[i], o)

\* A search over two knowledge bases returned equal-score results of both and
\* left a result out.
C12_Witness ==
    /\ sr.pc = "done"
    /\ sr.limit >= 2
    /\ Len(Resolvable) > sr.limit
    /\ \E i, j \in DOMAIN sr.ret :
           /\ sr.ret[i].score = sr.ret[j].score
           /\ sr.ret[i].src # sr.ret[j].src
    /\ \E k \in DOMAIN Resolvable : \A i \in DOMAIN sr.ret :
           Resolvable[k].score < sr.ret[i].score

\* C13: a knowledge base whose service is null or whose search raises
\* contributes nothing, the merged results of the others are returned, and
\* search never raises.
C13_BrokenKbSkipped ==
    /\ sr.pc # "raised"
    /\ sr.pc = "done" =>
           /\ \A i \in DOMAIN sr.ret : sr.outcomes[sr.ret[i].src] = "results"
           /\ \A k \in 1..sr.n : sr.outcomes[k] # "results" => sr.got[k] = <<>>
           /\ sr.limit >= 0 =>
                  Len(sr.ret) = Min(sr.limit, Len(Concat(
                      [k \in 1..sr.n |-> IF sr.outcomes[k] = "results"
                                         THEN sr.got[k] ELSE <<>>])))

\* A search met a null service and a raising search and returned the results
\* of the knowledge base that came after them.
C13_Witness ==
    /\ sr.pc = "done"
    /\ \E a, b, c \in 1..sr.n :
           /\ a < c /\ b < c
           /\ sr.outcomes[a] = "null"
           /\ sr.outcomes[b] = "raise"
           /\ \E i \in DOMAIN sr.ret : sr.ret[i].src = c

\* C14: when get_service yields null, add_document and delete_document return the
\* empty map, get_document_ids the empty list and finalize_legra false; none of
\* them raises or invokes a provider operation.
C14_NullServiceDegrades ==
    LET r == mop.last
    IN  (r.op # "none" /\ task[r.call].ret = None) =>
            /\ ~r.raised
            /\ ~r.provider
            /\ r.op \in {"add_document", "delete_document"} => r.result = "{}"
            /\ r.op = "get_document_ids" => r.result = "[]"
            /\ r.op = "finalize_legra" => r.result = "False"

\* The second of two operations ran on a knowledge base whose service could
\* not be resolved.
C14_Witness ==
    /\ mop.used = Tasks
    /\ mop.last.op \in ManagerOps
    /\ task[mop.last.call].ret = None
    /\ task[mop.last.call].cfg \in {"null", "raise"}

\* C15: prefix isolation: a document added under kb_id1 is never returned by
\* get_document_ids(kb_id2) for kb_id2 # kb_id1, the ids being arbitrary strings.
C15_PrefixIsolation ==
    gret.op = "get_document_ids" =>
        \A d \in gdocs : d.id \in gret.ids => d.under = gret.kb

\* C16: initialize() is only invoked on a freshly constructed instance that has
\* never been in the cache: no instance is initialized twice, the instance being
\* initialized is not and never was a cache entry, and a call that evicted a
\* stale entry initializes a different instance.
C16_InitializeOnlyFreshInstance ==
    /\ \A i \in Tasks : inst[i].inits <= 1
    /\ \A t \in Tasks : task[t].pc = "init" =>
           LET s == task[t].svc
           IN  /\ ~inst[s].cached
               /\ inst[s].initRet = "none"
               /\ s # task[t].evicted
               /\ \A kb \in KBs : services[kb] # s

\* A call that evicted a stale entry is inside initialize() of its new instance.
C16_Witness ==
    \E t \in Tasks : task[t].pc = "init" /\ task[t].evicted # None

\* C17: after the delete-knowledge-base operation for kb_id has completed, the
\* registry cache holds no service for kb_id.
C17_DeleteEvictsService ==
    route.pc = "deleted" => services[route.kb] = None

\* C18: get_service takes no lock shared between different kb_ids: a call only
\* ever waits for a lock taken by a call for the same kb_id, so a call for kb_id2
\* proceeds while a call for kb_id1 is suspended inside initialize().
C18_NoLockSharedAcrossKbs ==
    \A u \in Tasks : task[u].pc = "waitLock" =>
        \E t \in Tasks \ {u} :
            /\ task[t].pc # "idle"
            /\ task[t].kb = task[u].kb
            /\ task[t].lock = task[u].lock

\* Calls for two different knowledge bases are inside initialize() together.
C18_Witness ==
    \E t, u \in Tasks :
        /\ task[t].pc = "init" /\ task[u].pc = "init"
        /\ task[t].kb # task[u].kb

\* C19: GraphDBProvider.add_document for a doc id that already exists returns
\* true and leaves exactly one Document with that id, holding the new content
\* and only the chunks of the new content.
C19_AddDocumentUpserts ==
    (gret.op = "add" /\ gret.existed /\ graph # "none") =>
        LET docs == {d \in gdocs : d.id = gret.id}
            chunks == {c \in gchunks : c.doc_id = gret.id}
        IN  /\ gret.ret
            /\ Cardinality(docs) = 1
            /\ \A d \in docs : d.content = gret.content
            /\ Cardinality(chunks) = Len(SplitText(gret.content))
            /\ {c.content : c \in chunks} = Range(SplitText(gret.content))

\* C20: after a provider's delete_document(doc_id) has returned true the
\* provider holds nothing of doc_id any more: it is not listed and no text or
\* chunk of it remains in the storage.
C20_DeleteRemovesDocument ==
    (lret.op = "delete" /\ lret.ret) =>
        /\ lret.id \notin documentMap
        /\ \A d \in ragDocs : d.id # lret.id

\* ------------------------------------------------------------------ claims C21-C30
\* The chunks of the document id in the graph, and the keywords of the last search.
ChunksOf(id) == {c \in gchunks : c.doc_id = id}

SearchKeywords == ExtractKeywords(gret.query)

KeywordResults == {i \in DOMAIN gret.results : gret.results[i].stage = "keyword"}

ContentResults == {i \in DOMAIN gret.results : gret.results[i].stage = "content"}

\* C21 (as stated): a document found by keyword match is scored as the number of
\* distinct query keywords the document matches, over all its chunks, divided
\* by the number of keywords extracted from the query.
C21_ScoreCountsDocumentKeywords ==
    gret.op = "search" =>
        \A i \in KeywordResults :
            LET r == gret.results[i]
            IN  r.score = <<Cardinality(UNION {c.kws \cap SearchKeywords : c \in ChunksOf(r.id)}),
                            Cardinality(SearchKeywords)>>

\* C21 (amended): a document found by keyword match is scored as the largest
\* number of distinct query keywords that one of its chunks matches, divided by
\* the number of keywords extracted from the query; a found document that the
\* limit cut off scores no higher than any returned one.
C21_ScoreIsBestChunk ==
    gret.op = "search" =>
        /\ \A i \in KeywordResults :
               LET r == gret.results[i]
               IN  /\ r.score[2] = Cardinality(SearchKeywords)
                   /\ \E c \in ChunksOf(r.id) :
                          r.score[1] = Cardinality(c.kws \cap SearchKeywords)
                   /\ \A c \in ChunksOf(r.id) :
                          Cardinality(c.kws \cap SearchKeywords) <= r.score[1]
        /\ \A id \in gret.found :
               (\A i \in DOMAIN gret.results : gret.results[i].id # id) =>
                   \A i \in DOMAIN gret.results, c \in ChunksOf(id) :
                       ScoreGeq(gret.results[i].score,
                                <<Cardinality(c.kws \cap SearchKeywords),
                                  Cardinality(SearchKeywords)>>)

\* C21 witness: the query {refund, policy} with limit 1 found two documents, one
\* with a chunk matching both keywords, and returned that one with score 2/2.
C21_Witness ==
    /\ gret.op = "search" /\ gret.ret
    /\ gret.query = <<"refund", "policy">>
    /\ gret.limit = 1
    /\ Cardinality(gret.found) = 2
    /\ Len(gret.results) = 1
    /\ gret.results[1].score = <<2, 2>>
    /\ \E id \in gret.found :
           UNION {c.kws \cap SearchKeywords : c \in ChunksOf(id)} = {"refund"}

\* C22: search returns at most `limit` results, sorted by score descending, no
\* doc id twice; results of the substring stage appear only when the keyword
\* stage found fewer than `limit` documents, each has score exactly 0.5 and none
\* is a document the keyword stage found.
C22_FallbackFillsUpToLimit ==
    gret.op = "search" =>
        /\ Len(gret.results) <= gret.limit
        /\ \A i, j \in DOMAIN gret.results :
               i < j => /\ ScoreGeq(gret.results[i].score, gret.results[j].score)
                        /\ gret.results[i].id # gret.results[j].id
        /\ ContentResults # {} => Cardinality(gret.found) < gret.limit
        /\ \A i \in ContentResults :
               /\ gret.results[i].score[1] * 2 = gret.results[i].score[2]
               /\ gret.results[i].id \notin gret.found

\* C22 witness: a search with limit 2 returned a document of the keyword stage
\* followed by a document of the substring stage.
C22_Witness ==
    /\ gret.op = "search" /\ gret.ret
    /\ gret.limit = 2
    /\ Len(gret.results) = 2
    /\ gret.results[1].stage = "keyword"
    /\ gret.results[2].stage = "content"
    /\ \E c \in ChunksOf(gret.results[1].id) : Contains(ChunkText(c.content), gret.query)

\* C23: no provider operation raises past the interface: when the lazy
\* initialisation or the backend call fails, search and get_document_ids
\* return the empty list and add_document and delete_document return false.
C23_ProviderFailsSoft ==
    (lret.op # "none" /\ lret.failed) =>
        /\ lret.ret = FALSE
        /\ lret.ids = {}
        /\ lret.results = <<>>

\* C24: flush_and_reset always terminates: every call, in any state and with or
\* without concurrent record_request calls, returns.
C24_FlushTerminates ==
    \A t \in AggThreads :
        (agg.th[t].pc = "flush") ~> (agg.th[t].pc = "idle")

\* C25: every add_document call that load_knowledge_items makes for a file
\* sub-unit passes the text extracted from the locator of that call's doc id,
\* also for URL locators and when another file of the item failed to extract.
C25_AddPassesTextOfItsLocator ==
    LET l == ld["L1"]
    IN  \A i \in DOMAIN l.log :
            (l.log[i].op = "add" /\ Len(l.log[i].id) = Len(DocIdFile("k1", 0, "/a")))
            => l.log[i].content = ExtractedText(l.log[i].id[6])

\* The documents (ids and contents) of the sub-units of an item.
DocSet(item) ==
    {[id |-> SubUnitIds(item)[i],
      content |-> IF item.type = "file" /\ item.files # <<>>
                  THEN ExtractedText(item.files[i]) ELSE InlineContent(item)]
     : i \in DOMAIN SubUnitIds(item)}

\* C26: when two load_knowledge_items calls with action "update" for the same
\* knowledge base run concurrently, the documents stored for it afterwards are
\* exactly the document set of one of the two calls.
C26_ConcurrentUpdatesLeaveOneSet ==
    (\A p \in Loaders : ld[p].pc = "done") =>
        \E p \in Loaders :
            {d \in store : KbOf(d.id) = "k1"} = DocSet(ld[p].items[1])

C28_DeleteScopedToKb ==
    gret.op = "manager_delete" => \A k \in gret.removed : k = gret.kb

\* C29: a broadcast in which sending to one websocket fails removes exactly that
\* websocket from the registry, still attempts delivery to every other
\* subscribed websocket of the conversation, and never leaves a conversation
\* id mapped to an empty list.
C29_BroadcastSurvivesFailedSend ==
    LET b == sock.bc
    IN  /\ \A c \in Convs : sock.conns[c] # <<>>
        /\ b.last # "none" =>
               /\ \A c \in Convs : c # b.conv => b.after[c] = b.before[c]
               /\ ConnsOf(b.after, b.conv) =
                      SelectSeq(ConnsOf(b.before, b.conv), LAMBDA w : w # b.last)
        /\ b.pc = "done" =>
               \A i \in DOMAIN b.start :
                   Subscribed(b.start[i]) => b.start[i] \in b.attempted

\* C29 witness: a broadcast has ended in which the send to the first websocket
\* failed, leaving the conversation without websockets, and the later one was
\* still attempted.
C29_Witness ==
    LET b == sock.bc
    IN  /\ b.pc = "done"
        /\ Len(b.start) = 2
        /\ b.start[1] \in b.failed
        /\ b.start[2] \in b.attempted
        /\ b.failed = b.attempted
        /\ sock.conns[b.conv] = NoKey

\* C30: generate_nodes_from_wizard returns exactly one node per step of the
\* input it is given, and generate_edges_from_wizard, called after it on the
\* same instance with the same input, returns without raising the edges that
\* link each node generated for that input to the next one, whatever wizard
\* calls were made earlier on this or another instance.
C30_WizardCallsAreIndependent ==
    LET r == wiz.ret
    IN  /\ r.op = "nodes" => Len(r.nodes) = Len(r.input)
        /\ (r.op = "edges" /\ wiz.gen[r.inst].input = r.input) =>
               /\ ~r.raised
               /\ r.edges = [i \in 1..(Len(r.input) - 1) |->
                                [source |-> wiz.gen[r.inst].ids[i],
                                 target |-> wiz.gen[r.inst].ids[i + 1]]]
====
